---- MODULE Spec2Model ----
(***************************************************************************)
(* Model of update_counts.py: the commit enumerator, the commit cache, the *)
(* history scanner (lookup_commit driven by run), the dataset export, the  *)
(* charts and the per-file page.                                           *)
(*                                                                         *)
(* The tracked repository is a linear chain of commits 1..NumCommits; the  *)
(* commit at position p has identifier CommitId(p), committer timestamp    *)
(* CommitDate(p), a change set containing the tokens DiffTokens(p) and a   *)
(* tree in which category i occurs TreeCount(p, i) times.                  *)
(***************************************************************************)
EXTENDS Integers, Sequences, FiniteSets

\* ---------------------------------------------------------------- bounds
NumCommits == 6
MaxRuns == 2
MaxFaults == 1
MaxLogLines == 2   \* lines of a git log output handed to the parser alone
MaxKeys == 3       \* entries of a mapping handed to the serialiser alone
MaxFiles == 3      \* files of a git grep -c listing handed to the sorter alone

\* ------------------------------------------------------ program constants
\* SAVE_CACHE_INV_FREQ is 50 in the source; it is scaled down so that a
\* scan of NumCommits commits crosses several flush boundaries.  Every
\* formula below is stated in terms of the name, not of the number.
SAVE_CACHE_INV_FREQ == 2

Categories == 1..4   \* stream_file, core_file, ak_stream, c_file

\* Alternatives of the expression handed to "git log -G".  The argument list
\* of determine_commit_and_date_list has no comma between the f-string and
\* "origin/master", so Python concatenates the two literals: the expression
\* ends in FILE\*origin/master and git log receives no revision argument.
LOG_REGEX_ALTERNATIVES ==
    {"Core::Stream", "Core::File", "AK::Stream", "fopen(", "fdopen(",
     "FILE*origin/master"}

\* The tokens the four tracked categories look for (CORE_STREAM_REGEX,
\* CORE_FILE_REGEX, AK_STREAM_REGEX, C_FILE_REGEX).
TRACKED_TOKENS ==
    {"Core::Stream", "Core::File", "AK::Stream", "fopen(", "fdopen(", "FILE*"}

\* ------------------------------------------------------- the repository
Positions == 1..NumCommits

\* 40-hex commit hashes: unique, and unrelated to the chronological order.
CommitId(p) == (p * 7) % 11

PosOf(id) == CHOOSE p \in 1..10 : CommitId(p) = id

\* %ct, the committer timestamp.  Commits of one rebased series share a
\* second, so neighbours in the history may carry the same timestamp.
CommitDate(p) == 1640000000 + 3600 * (p \div 2)

\* What the change set of a commit adds or removes.
DiffTokens(p) ==
    IF p % 4 = 1 THEN {"FILE*"}
    ELSE IF p % 2 = 0 THEN {"Core::File", "fopen("}
    ELSE {"Core::Stream", "AK::Stream"}

\* Matching lines of category i in the tree of the commit at position p.
TreeCount(p, i) == (p - 1) * (i - 1)

\* ------------------------------------------------------------- helpers
Last(s) == s[Len(s)]

Front(s) == SubSeq(s, 1, Len(s) - 1)

RECURSIVE SortedSeq(_)
SortedSeq(S) ==
    IF S = {} THEN <<>>
    ELSE LET m == CHOOSE x \in S : \A y \in S : x <= y
         IN  <<m>> \o SortedSeq(S \ {m})

EmptyMap == [k \in {} |-> <<>>]

\* A line of text is the sequence of its space-separated fields; the empty
\* string is EmptyLine, which str.split(" ") turns into one (empty) field.
EmptyLine == <<>>

FieldCount(line) == IF line = EmptyLine THEN 1 ELSE Len(line)

\* ------------------------------------------------- the commit enumerator
RECURSIVE LogLines(_, _)
\* git log -G<expr> --reverse --format="%H %ct" <rev>: one line per ancestor
\* of rev whose change set matches an alternative, oldest first.
LogLines(rev, alternatives) ==
    IF rev = 0 THEN <<>>
    ELSE LET older == LogLines(rev - 1, alternatives)
         IN  IF DiffTokens(rev) \cap alternatives # {}
             THEN Append(older, <<CommitId(rev), CommitDate(rev)>>)
             ELSE older

\* The revision git log walks from.  No revision reaches git (see
\* LOG_REGEX_ALTERNATIVES), so it defaults to HEAD.
LogRevision(headPos, originPos) == headPos

\* result.stdout.split("\n") of newline-terminated output
SplitNewline(stdoutLines) == Append(stdoutLines, EmptyLine)

\* result.stdout.split("\n") of any output: stdout.lines are its lines, and
\* stdout.terminated tells whether the last of them ends in a newline.
SplitText(stdout) ==
    IF stdout.terminated THEN SplitNewline(stdout.lines) ELSE stdout.lines

\* Lines 53-62: the checks and the parse.  ok = FALSE stands for the
\* AssertionError / IndexError that ends the process.
ParseLines(lines) ==
    IF Last(lines) # EmptyLine THEN [ok |-> FALSE, entries |-> <<>>]
    ELSE LET popped == Front(lines)
         IN  IF popped = <<>>                       \* lines[-1] of []
             THEN [ok |-> FALSE, entries |-> <<>>]
             ELSE IF Last(popped) = EmptyLine
             THEN [ok |-> FALSE, entries |-> <<>>]
             ELSE IF \E i \in DOMAIN popped : FieldCount(popped[i]) # 2
             THEN [ok |-> FALSE, entries |-> <<>>]
             ELSE [ok |-> TRUE,
                   entries |-> [i \in DOMAIN popped |->
                                  <<popped[i][1], popped[i][2]>>]]

\* Lines 52-62 on the newline-terminated output git log prints.
ParseLog(stdoutLines) == ParseLines(SplitNewline(stdoutLines))

determine_commit_and_date_list(headPos, originPos) ==
    ParseLog(LogLines(LogRevision(headPos, originPos), LOG_REGEX_ALTERNATIVES))

\* ------------------------------------------------------ the commit cache
\* The cache file: absent, or holding the text of a json.dump that ran to
\* its end (complete) or was cut short.  The text is the sequence of
\* "key":[...] members in the order they were written.
NoFile == [exists |-> FALSE, complete |-> FALSE, text |-> <<>>]

\* json.dump(cache, sort_keys=True): members in ascending key order.
Dump(c) ==
    LET keys == SortedSeq(DOMAIN c)
    IN  [i \in DOMAIN keys |-> <<keys[i], c[keys[i]]>>]

\* json.load of a complete text.
Parse(text) ==
    LET keys == {text[i][1] : i \in DOMAIN text}
    IN  [k \in keys |-> text[CHOOSE i \in DOMAIN text : text[i][1] = k][2]]

save_cache(c) == [exists |-> TRUE, complete |-> TRUE, text |-> Dump(c)]

\* save_cache cut short after n members: open(.., "w") has truncated the
\* file and the closing brace was never written.
save_cache_interrupted(c, n) ==
    [exists |-> TRUE, complete |-> FALSE, text |-> SubSeq(Dump(c), 1, n)]

\* Faulty variant: the file is never read and every run starts from scratch.
load_cache_from_scratch(file) == [ok |-> TRUE, cache |-> EmptyMap]

\* ok = FALSE stands for json.load raising on a text that is not JSON.
load_cache(file) ==
    IF file.exists
    THEN IF file.complete
         THEN [ok |-> TRUE, cache |-> Parse(file.text)]
         ELSE [ok |-> FALSE, cache |-> EmptyMap]
    ELSE [ok |-> TRUE, cache |-> EmptyMap]

\* A Python dict keeps its items in insertion order; items is that order,
\* a sequence of <<key, value>> with distinct keys.  Dump above is the same
\* serialiser on a mapping whose insertion order has been forgotten.
\* Faulty variant: json.dump without sort_keys writes the items as they come.
JsonDumpItemsUnsorted(items) == items

\* json.dump(cache, fp, sort_keys=True, ..) of line 77
JsonDumpItems(items) ==
    LET keys == SortedSeq({items[i][1] : i \in DOMAIN items})
    IN  [i \in DOMAIN keys |->
            items[CHOOSE j \in DOMAIN items : items[j][1] = keys[i]]]

\* ------------------------------------------------------- lookup_commit
\* Faulty variant: the membership test never succeeds.
InCacheNever(commit, c) == FALSE

InCache(commit, c) == commit \in DOMAIN c

\* Faulty variant: the assignment replaces the mapping instead of extending it.
StoreCountsFresh(c, commit, counts) == [k \in {commit} |-> counts]

StoreCounts(c, commit, counts) ==
    [k \in DOMAIN c \cup {commit} |-> IF k = commit THEN counts ELSE c[k]]

\* Faulty variant: the modulus test is off by one.
ShouldSaveOffByOne(c) == Cardinality(DOMAIN c) % SAVE_CACHE_INV_FREQ = 1

\* Faulty variant: the cache is saved half as often.
ShouldSaveSparse(c) == Cardinality(DOMAIN c) % (2 * SAVE_CACHE_INV_FREQ) = 0

ShouldSave(c) == Cardinality(DOMAIN c) % SAVE_CACHE_INV_FREQ = 0

\* datetime.fromtimestamp(date).strftime(..): the calendar day and the
\* second of that day.
HumanReadable(date) == <<date \div 86400, date % 86400>>

\* Faulty variant: the identifier and the timestamp change places.
TaggedCommitSwapped(commit, date, counts) ==
    [commit |-> date, unix_timestamp |-> commit,
     human_readable_time |-> HumanReadable(date),
     stream_file |-> counts[1], core_file |-> counts[2],
     ak_stream |-> counts[3], c_file |-> counts[4]]

TaggedCommit(commit, date, counts) ==
    [commit |-> commit, unix_timestamp |-> date,
     human_readable_time |-> HumanReadable(date),
     stream_file |-> counts[1], core_file |-> counts[2],
     ak_stream |-> counts[3], c_file |-> counts[4]]

\* The outcome of the four git grep runs of one cache miss: each run prints
\* its matches ("ok"), dies with an error status and empty output that
\* nobody checks ("error"), or prints output that fails the assertion
\* ("malformed").  Nothing runs after a malformed one.
GrepResults ==
    {r \in [Categories -> {"ok", "error", "malformed"}] :
        \A i \in Categories : \A j \in Categories :
            (r[i] = "malformed" /\ j > i) => r[j] = "ok"}

GrepFaults(r) == Cardinality({i \in Categories : r[i] # "ok"})

Aborted(r) == \E i \in Categories : r[i] = "malformed"

CallsMade(r) ==
    IF Aborted(r) THEN CHOOSE i \in Categories : r[i] = "malformed" ELSE 4

\* count_repo_occurrences for category i on the tree checked out at treePos
count_repo_occurrences(treePos, i, outcome) ==
    IF outcome = "ok" THEN TreeCount(treePos, i) ELSE 0

\* ----------------------------------------------- count_file_occurrences
\* dict(x.split(':') for x in lines[:-1]).items(): one item per path, at the
\* place of the path's first line, with the count of its last line.
RECURSIVE DictItems(_)
DictItems(lines) ==
    IF lines = <<>> THEN <<>>
    ELSE LET before == DictItems(Front(lines))
             line == Last(lines)
         IN  IF \E i \in DOMAIN before : before[i][1] = line[1]
             THEN [i \in DOMAIN before |->
                     IF before[i][1] = line[1] THEN line ELSE before[i]]
             ELSE Append(before, line)

\* int(text) of a decimal numeral, given as its sequence of digits.
RECURSIVE ParseInt(_)
ParseInt(digits) ==
    IF digits = <<>> THEN 0
    ELSE 10 * ParseInt(Front(digits)) + Last(digits)

\* Faulty variant: the counts are compared as text, "10" before "2" before
\* "9": the first digit decides, then the length.
CountKeyAsText(x) == 10 * x[2][1] + Len(x[2])

\* key=lambda x: int(x[1])
CountKey(x) == ParseInt(x[2])

\* x goes behind every element of the descending sequence s whose key is
\* not smaller than its own.
InsertDescending(x, s) ==
    LET n == Cardinality({i \in DOMAIN s : CountKey(s[i]) >= CountKey(x)})
    IN  SubSeq(s, 1, n) \o <<x>> \o SubSeq(s, n + 1, Len(s))

\* sorted(items, key=.., reverse=True): a stable sort, so items of equal key
\* keep their order.
RECURSIVE SortedByCount(_)
SortedByCount(items) ==
    IF items = <<>> THEN <<>>
    ELSE InsertDescending(Last(items), SortedByCount(Front(items)))

\* Lines 97-100 on the lines git grep -c printed, each <<path, count>> with
\* the count as the text printed.
count_file_occurrences(listing) == SortedByCount(DictItems(listing))

\* The files git grep -c lists for category i in the tree at position p,
\* with their counts as printed; the counts add up to TreeCount(p, i).
RECURSIVE FormatInt(_)
FormatInt(n) ==
    IF n < 10 THEN <<n>> ELSE Append(FormatInt(n \div 10), n % 10)

FileListing(p, i) ==
    LET n == TreeCount(p, i)
    IN  IF n = 0 THEN <<>>
        ELSE IF n = 1 THEN <<<<1, FormatInt(1)>>>>
        ELSE <<<<1, FormatInt(1)>>, <<2, FormatInt(n - 1)>>>>

\* write_file_list, lines 247-250: the tables of Core::File, AK::Stream and
\* C FILE*, counted in the working tree as it stands.
FileListCategories == {2, 3, 4}

write_file_list(treePos) ==
    [i \in FileListCategories |->
        count_file_occurrences(FileListing(treePos, i))]

\* ------------------------------------------------------------ the setup
NoCheckout == 0

\* Faulty variant: run goes on without looking for the checkout.
CheckoutAssumed(headPos) == TRUE

\* os.path.exists(SERENITY_DIR + "README.md"), line 257
CheckoutPresent(headPos) == headPos # NoCheckout

\* --------------------------------------------------------- write_graphs
WEEK == 3600 * 24 * 7
MONTH == 3600 * 24 * 31
YEAR == 3600 * 24 * 366

\* Faulty variant: a commit exactly one window old still counts as inside.
WithinInclusive(most_recent_commit, time_now, window) ==
    most_recent_commit >= time_now - window

\* most_recent_commit > time_last_week (.._month, .._year)
Within(most_recent_commit, time_now, window) ==
    most_recent_commit > time_now - window

\* What write_graphs prints and runs, in order.  ok = FALSE stands for the
\* AssertionError raised at line 189 or 198.
write_graphs(most_recent_commit, time_now) ==
    LET begun == <<<<"plotting", time_now>>, <<"gnuplot", "--version">>>>
        week == IF Within(most_recent_commit, time_now, WEEK)
                THEN <<>> ELSE <<<<"warning", "week">>>>
    IN  IF ~Within(most_recent_commit, time_now, MONTH)
        THEN [ok |-> FALSE, effects |-> begun \o week \o <<<<"error", "month">>>>]
        ELSE IF ~Within(most_recent_commit, time_now, YEAR)
        THEN [ok |-> FALSE, effects |-> begun \o week \o <<<<"error", "year">>>>]
        ELSE [ok |-> TRUE, effects |-> begun \o week \o <<<<"gnuplot", "plot">>>>]

\* How long after the most recent enumerated commit write_graphs runs.
ClockOffsets == {3600, WEEK, MONTH, YEAR}

\* ----------------------------------------------------------------- state
VARIABLES
    pc,                \* where run() stands, or how the process ended
    runs,              \* invocations started so far
    faults,            \* failures and interruptions injected so far
    originMaster,      \* position of the remote-tracking ref origin/master
    head,              \* position the working tree (HEAD) is checked out to,
                       \* NoCheckout when SERENITY_DIR holds no checkout
    cacheFile,         \* cache.json on disk
    cache,             \* the mapping held by run()
    commits_and_dates, \* the enumerator's result
    tagged_commits,    \* the records collected so far
    jsonFile,          \* tagged_history.json
    csvFile,           \* tagged_history.csv
    indexFile,         \* index.html
    log,               \* history: checkouts, counts and saves of this run
    loaded,            \* history: the mapping load_cache returned
    persisted,         \* history: the mapping of the last save that finished
    prev,              \* history: how the previous invocation ended
    input,             \* the argument of a function exercised on its own
    output             \* and what the function returned for it

vars == <<pc, runs, faults, originMaster, head, cacheFile, cache,
          commits_and_dates, tagged_commits, jsonFile, csvFile,
          indexFile, log, loaded, persisted, prev, input, output>>

NotWritten == [written |-> FALSE, rows |-> <<>>]

Stopped == {"idle", "setup_error", "failed", "interrupted", "done"}

ScanCompleted == pc \in {"saved", "json", "exported", "charted", "done"}

Init ==
    /\ pc = "idle"
    /\ runs = 0
    /\ faults = 0
    /\ \/ originMaster \in Positions /\ head = originMaster  \* a fresh clone
       \/ originMaster = NoCheckout /\ head = NoCheckout     \* nothing cloned
    /\ cacheFile = NoFile
    /\ cache = EmptyMap
    /\ commits_and_dates = <<>>
    /\ tagged_commits = <<>>
    /\ jsonFile = NotWritten
    /\ csvFile = NotWritten
    /\ indexFile = NotWritten
    /\ log = <<>>
    /\ loaded = EmptyMap
    /\ persisted = EmptyMap
    /\ prev = [completed |-> FALSE, commits |-> <<>>, dataset |-> <<>>]
    /\ input = <<>>
    /\ output = <<>>

\* A new process: nothing of the previous one's memory survives.
StartRun ==
    /\ UNCHANGED <<indexFile, input, output>>
    /\ pc \in Stopped
    /\ runs < MaxRuns
    /\ pc' = "start"
    /\ runs' = runs + 1
    /\ cache' = EmptyMap
    /\ commits_and_dates' = <<>>
    /\ tagged_commits' = <<>>
    /\ log' = <<>>
    /\ loaded' = EmptyMap
    /\ prev' = IF ScanCompleted
                THEN [completed |-> TRUE,
                      commits |-> commits_and_dates,
                      dataset |-> tagged_commits]
                ELSE [completed |-> FALSE, commits |-> <<>>, dataset |-> <<>>]
    /\ UNCHANGED <<faults, originMaster, head, cacheFile, jsonFile, csvFile,
                   persisted>>

\* Lines 257-261: no README.md under SERENITY_DIR; the message and exit(1).
SetupError ==
    /\ UNCHANGED <<indexFile, input, output>>
    /\ pc = "start"
    /\ ~CheckoutPresent(head)
    /\ log' = Append(log, <<"exit", 1>>)
    /\ pc' = "setup_error"
    /\ UNCHANGED <<runs, faults, originMaster, head, cacheFile, cache,
                   commits_and_dates, tagged_commits, jsonFile, csvFile,
                   loaded, persisted, prev>>

\* git fetch: origin/master moves to wherever upstream now is.
FetchNew ==
    /\ UNCHANGED <<indexFile, input, output>>
    /\ pc = "start"
    /\ CheckoutPresent(head)
    /\ \E tip \in originMaster..NumCommits : originMaster' = tip
    /\ pc' = "fetched"
    /\ UNCHANGED <<runs, faults, head, cacheFile, cache, commits_and_dates,
                   tagged_commits, jsonFile, csvFile, log, loaded, persisted,
                   prev>>

\* git fetch exits non-zero; check=True raises.
FetchFails ==
    /\ UNCHANGED <<indexFile, input, output>>
    /\ pc = "start"
    /\ CheckoutPresent(head)
    /\ faults < MaxFaults
    /\ faults' = faults + 1
    /\ pc' = "failed"
    /\ UNCHANGED <<runs, originMaster, head, cacheFile, cache,
                   commits_and_dates, tagged_commits, jsonFile, csvFile, log,
                   loaded, persisted, prev>>

DetermineCommitAndDateList ==
    /\ UNCHANGED <<indexFile, input, output>>
    /\ pc = "fetched"
    /\ LET r == determine_commit_and_date_list(head, originMaster)
       IN  IF r.ok
           THEN /\ commits_and_dates' = r.entries
                /\ pc' = "enumerated"
           ELSE /\ commits_and_dates' = commits_and_dates
                /\ pc' = "failed"
    /\ UNCHANGED <<runs, faults, originMaster, head, cacheFile, cache,
                   tagged_commits, jsonFile, csvFile, log, loaded, persisted,
                   prev>>

\* Lines 265-270: the prints index commits_and_dates[-1], then load_cache.
LoadCache ==
    /\ UNCHANGED <<indexFile, input, output>>
    /\ pc = "enumerated"
    /\ LET r == load_cache(cacheFile)
       IN  IF commits_and_dates # <<>> /\ r.ok
           THEN /\ cache' = r.cache
                /\ loaded' = r.cache
                /\ pc' = "scanning"
           ELSE /\ UNCHANGED <<cache, loaded>>
                /\ pc' = "failed"
    /\ UNCHANGED <<runs, faults, originMaster, head, cacheFile,
                   commits_and_dates, tagged_commits, jsonFile, csvFile, log,
                   persisted, prev>>

\* The element of commits_and_dates the list comprehension is at.
Scanning == pc = "scanning" /\ Len(tagged_commits) < Len(commits_and_dates)

NextEntry == commits_and_dates[Len(tagged_commits) + 1]

\* lookup_commit, cache hit (lines 104-105, 122-133)
LookupCommitHit ==
    /\ UNCHANGED <<indexFile, input, output>>
    /\ Scanning
    /\ InCache(NextEntry[1], cache)
    /\ tagged_commits' =
          Append(tagged_commits,
                 TaggedCommit(NextEntry[1], NextEntry[2], cache[NextEntry[1]]))
    /\ UNCHANGED <<pc, runs, faults, originMaster, head, cacheFile, cache,
                   commits_and_dates, jsonFile, csvFile, log, loaded,
                   persisted, prev>>

\* git checkout exits non-zero; check=True raises (line 108).
LookupCommitCheckoutFails ==
    /\ UNCHANGED <<indexFile, input, output>>
    /\ Scanning
    /\ ~InCache(NextEntry[1], cache)
    /\ faults < MaxFaults
    /\ faults' = faults + 1
    /\ pc' = "failed"
    /\ log' = Append(log, <<"checkout_failed", NextEntry[1]>>)
    /\ UNCHANGED <<runs, originMaster, head, cacheFile, cache,
                   commits_and_dates, tagged_commits, jsonFile, csvFile,
                   loaded, persisted, prev>>

\* Faulty variant: the checkout of line 108 is left out.
git_checkout_skipped(headPos, commit) == headPos

\* git checkout -q <commit>: the working tree becomes the tree of commit.
git_checkout(headPos, commit) == PosOf(commit)

\* The first n git grep runs of a miss: category, the tree they read, and
\* how they ended.
CountLog(treePos, r, n) == [i \in 1..n |-> <<"count", i, treePos, r[i]>>]

\* lookup_commit, cache miss (lines 106-133)
LookupCommitMiss ==
    /\ UNCHANGED <<indexFile, input, output>>
    /\ Scanning
    /\ ~InCache(NextEntry[1], cache)
    /\ \E r \in GrepResults :
        LET commit == NextEntry[1]
            tree == git_checkout(head, commit)
            counts == [i \in Categories |->
                          count_repo_occurrences(tree, i, r[i])]
            extended == StoreCounts(cache, commit, counts)
            effects == <<<<"checkout", commit>>>> \o
                       CountLog(tree, r, CallsMade(r))
        IN  /\ faults + GrepFaults(r) <= MaxFaults
            /\ faults' = faults + GrepFaults(r)
            /\ head' = tree
            /\ IF Aborted(r)
               THEN /\ pc' = "failed"
                    /\ log' = log \o effects
                    /\ UNCHANGED <<cache, cacheFile, persisted, tagged_commits>>
               ELSE /\ pc' = pc
                    /\ cache' = extended
                    /\ IF ShouldSave(extended)
                       THEN /\ cacheFile' = save_cache(extended)
                            /\ persisted' = extended
                            /\ log' = log \o effects \o <<<<"save">>>>
                       ELSE /\ UNCHANGED <<cacheFile, persisted>>
                            /\ log' = log \o effects
                    /\ tagged_commits' =
                          Append(tagged_commits,
                                 TaggedCommit(commit, NextEntry[2], counts))
    /\ UNCHANGED <<runs, originMaster, commits_and_dates, jsonFile, csvFile,
                   loaded, prev>>

\* The process is killed inside the save_cache of a cache miss (line 117):
\* the file was opened for writing and n members reached the disk.
LookupCommitKilledInSave ==
    /\ UNCHANGED <<indexFile, input, output>>
    /\ Scanning
    /\ ~InCache(NextEntry[1], cache)
    /\ faults < MaxFaults
    /\ LET commit == NextEntry[1]
           tree == git_checkout(head, commit)
           counts == [i \in Categories |->
                         count_repo_occurrences(tree, i, "ok")]
           extended == StoreCounts(cache, commit, counts)
       IN  /\ ShouldSave(extended)
           /\ \E n \in 0..Cardinality(DOMAIN extended) :
                 cacheFile' = save_cache_interrupted(extended, n)
           /\ head' = tree
           /\ cache' = extended
           /\ log' = log \o <<<<"checkout", commit>>>> \o
                     CountLog(tree, [i \in Categories |-> "ok"], 4)
    /\ faults' = faults + 1
    /\ pc' = "interrupted"
    /\ UNCHANGED <<runs, originMaster, commits_and_dates, tagged_commits,
                   jsonFile, csvFile, loaded, persisted, prev>>

\* Faulty variant: run ends without the save of line 274.
run_final_save_skipped(c, file) == file

\* Faulty variant: the final save is subject to the in-scan condition.
run_final_save_if_due(c, file) == IF ShouldSave(c) THEN save_cache(c) ELSE file

\* run, line 274
run_final_save(c, file) == save_cache(c)

FinalSave ==
    /\ UNCHANGED <<indexFile, input, output>>
    /\ pc = "scanning"
    /\ Len(tagged_commits) = Len(commits_and_dates)
    /\ cacheFile' = run_final_save(cache, cacheFile)
    /\ persisted' = IF cacheFile' = save_cache(cache) THEN cache ELSE persisted
    /\ log' = IF cacheFile' = save_cache(cache)
              THEN Append(log, <<"save">>) ELSE log
    /\ pc' = "saved"
    /\ UNCHANGED <<runs, faults, originMaster, head, cache, commits_and_dates,
                   tagged_commits, jsonFile, csvFile, loaded, prev>>

\* The process is killed inside the save_cache of line 274.
FinalSaveKilled ==
    /\ UNCHANGED <<indexFile, input, output>>
    /\ pc = "scanning"
    /\ Len(tagged_commits) = Len(commits_and_dates)
    /\ faults < MaxFaults
    /\ \E n \in 0..Cardinality(DOMAIN cache) :
          cacheFile' = save_cache_interrupted(cache, n)
    /\ faults' = faults + 1
    /\ pc' = "interrupted"
    /\ UNCHANGED <<runs, originMaster, head, cache, commits_and_dates,
                   tagged_commits, jsonFile, csvFile, log, loaded, persisted,
                   prev>>

\* run, lines 275-276
WriteJson ==
    /\ UNCHANGED <<indexFile, input, output>>
    /\ pc = "saved"
    /\ jsonFile' = [written |-> TRUE, rows |-> tagged_commits]
    /\ pc' = "json"
    /\ UNCHANGED <<runs, faults, originMaster, head, cacheFile, cache,
                   commits_and_dates, tagged_commits, csvFile, log, loaded,
                   persisted, prev>>

\* Faulty variant: the columns of core_file and stream_file change places.
CsvRowCoreFileFirst(entry) ==
    <<entry.unix_timestamp, entry.core_file, entry.stream_file,
      entry.ak_stream, entry.c_file>>

\* One line of tagged_history.csv, line 279
CsvRow(entry) ==
    <<entry.unix_timestamp, entry.stream_file, entry.core_file,
      entry.ak_stream, entry.c_file>>

\* run, lines 277-279
WriteCsv ==
    /\ UNCHANGED <<indexFile, input, output>>
    /\ pc = "json"
    /\ csvFile' = [written |-> TRUE,
                   rows |-> [i \in DOMAIN tagged_commits |->
                                CsvRow(tagged_commits[i])]]
    /\ pc' = "exported"
    /\ UNCHANGED <<runs, faults, originMaster, head, cacheFile, cache,
                   commits_and_dates, tagged_commits, jsonFile, log, loaded,
                   persisted, prev>>

\* run, line 280
WriteGraphs ==
    /\ UNCHANGED <<indexFile, input, output>>
    /\ pc = "exported"
    /\ \E d \in ClockOffsets :
          LET most_recent_commit == Last(commits_and_dates)[2]
              r == write_graphs(most_recent_commit, most_recent_commit + d)
          IN  /\ log' = log \o r.effects
              /\ pc' = IF r.ok THEN "charted" ELSE "failed"
    /\ UNCHANGED <<runs, faults, originMaster, head, cacheFile, cache,
                   commits_and_dates, tagged_commits, jsonFile, csvFile,
                   loaded, persisted, prev>>

\* run, line 281
WriteFileList ==
    /\ UNCHANGED <<input, output>>
    /\ pc = "charted"
    /\ indexFile' = [written |-> TRUE, rows |-> write_file_list(head)]
    /\ log' = log \o [k \in 1..3 |-> <<"count_files", k + 1, head>>]
    /\ pc' = "done"
    /\ UNCHANGED <<runs, faults, originMaster, head, cacheFile, cache,
                   commits_and_dates, tagged_commits, jsonFile, csvFile,
                   loaded, persisted, prev>>

\* The process is killed between two steps of run.
Interrupt ==
    /\ UNCHANGED <<indexFile, input, output>>
    /\ pc \in {"start", "fetched", "enumerated", "scanning", "saved", "json",
              "exported", "charted"}
    /\ faults < MaxFaults
    /\ faults' = faults + 1
    /\ pc' = "interrupted"
    /\ UNCHANGED <<runs, originMaster, head, cacheFile, cache,
                   commits_and_dates, tagged_commits, jsonFile, csvFile, log,
                   loaded, persisted, prev>>

\* Between two invocations the owner of the checkout at SERENITY_DIR checks
\* out a commit that has been fetched (run only asks for "a reasonably
\* recent git checkout" at that location).  The step is taken when the next
\* process has started and has not yet executed a statement: nothing of the
\* previous process is left then, and nothing of this one depends on HEAD.
UserChecksOut ==
    /\ UNCHANGED <<indexFile, input, output>>
    /\ pc = "start"
    /\ \E p \in 1..originMaster : p # head /\ head' = p
    /\ UNCHANGED <<pc, runs, faults, originMaster, cacheFile, cache,
                   commits_and_dates, tagged_commits, jsonFile, csvFile, log,
                   loaded, persisted, prev>>

Next ==
    \/ StartRun
    \/ SetupError
    \/ FetchNew
    \/ FetchFails
    \/ DetermineCommitAndDateList
    \/ LoadCache
    \/ LookupCommitHit
    \/ LookupCommitCheckoutFails
    \/ LookupCommitMiss
    \/ LookupCommitKilledInSave
    \/ FinalSave
    \/ FinalSaveKilled
    \/ WriteJson
    \/ WriteCsv
    \/ WriteGraphs
    \/ WriteFileList
    \/ Interrupt
    \/ UserChecksOut

Spec == Init /\ [][Next]_vars

\* ------------------------------------- functions exercised on their own
mainVars == <<pc, runs, faults, originMaster, head, cacheFile, cache,
              commits_and_dates, tagged_commits, jsonFile, csvFile,
              indexFile, log, loaded, persisted, prev>>

\* No run is in progress and none has happened.
Quiet ==
    /\ runs = 0
    /\ faults = 0
    /\ originMaster = 1
    /\ head = 1
    /\ cacheFile = NoFile
    /\ cache = EmptyMap
    /\ commits_and_dates = <<>>
    /\ tagged_commits = <<>>
    /\ jsonFile = NotWritten
    /\ csvFile = NotWritten
    /\ indexFile = NotWritten
    /\ log = <<>>
    /\ loaded = EmptyMap
    /\ persisted = EmptyMap
    /\ prev = [completed |-> FALSE, commits |-> <<>>, dataset |-> <<>>]

SeqsUpTo(S, n) == UNION {[1..k -> S] : k \in 0..n}

\* -- the enumerator's parser on any output the repository query may print
LineSamples ==
    {EmptyLine, <<CommitId(1)>>, <<CommitId(1), CommitDate(1)>>,
     <<CommitId(2), CommitDate(2)>>, <<CommitId(2), CommitDate(2), 0>>}

\* Every text has one representation: without a final newline it has a last
\* line, and that line is not empty.
StdoutSamples ==
    {[lines |-> l, terminated |-> t] :
        l \in SeqsUpTo(LineSamples, MaxLogLines), t \in BOOLEAN} \
    {o \in [lines : SeqsUpTo(LineSamples, MaxLogLines), terminated : {FALSE}] :
        o.lines = <<>> \/ Last(o.lines) = EmptyLine}

InitEnum ==
    /\ Quiet
    /\ pc = "enum_input"
    /\ input \in StdoutSamples
    /\ output = <<>>

ApplyEnum ==
    /\ pc = "enum_input"
    /\ output' = ParseLines(SplitText(input))
    /\ pc' = "enum_done"
    /\ UNCHANGED <<runs, faults, originMaster, head, cacheFile, cache,
                   commits_and_dates, tagged_commits, jsonFile, csvFile,
                   indexFile, log, loaded, persisted, prev, input>>

NextEnum == ApplyEnum

SpecEnum == InitEnum /\ [][NextEnum]_vars

\* -- the serialiser on two dicts that hold the same items
CacheKeys == {CommitId(p) : p \in 1..MaxKeys}

CountSamples == {<<0, 0, 0, 0>>, <<0, 1, 2, 3>>}

ItemSeqs ==
    {s \in SeqsUpTo(CacheKeys \X CountSamples, MaxKeys) :
        \A i \in DOMAIN s : \A j \in DOMAIN s : i # j => s[i][1] # s[j][1]}

Items(s) == {s[i] : i \in DOMAIN s}

InitSave ==
    /\ Quiet
    /\ pc = "save_input"
    /\ \E a \in ItemSeqs : \E b \in ItemSeqs :
          /\ Items(a) = Items(b)
          /\ input = [first |-> a, other |-> b]
    /\ output = <<>>

ApplySave ==
    /\ pc = "save_input"
    /\ output' = [first |-> JsonDumpItems(input.first),
                  again |-> JsonDumpItems(input.first),
                  other |-> JsonDumpItems(input.other)]
    /\ pc' = "save_done"
    /\ UNCHANGED <<runs, faults, originMaster, head, cacheFile, cache,
                   commits_and_dates, tagged_commits, jsonFile, csvFile,
                   indexFile, log, loaded, persisted, prev, input>>

NextSave == ApplySave

SpecSave == InitSave /\ [][NextSave]_vars

\* -- load_cache on any content of the working directory: cache.json
\* (warm) and a bootstrap snapshot next to it (cold)
FileSamples ==
    {NoFile} \cup {save_cache(Parse(s)) : s \in ItemSeqs}
             \cup {save_cache_interrupted(Parse(s), 0) : s \in ItemSeqs}

InitLoad ==
    /\ Quiet
    /\ pc = "load_input"
    /\ \E w \in FileSamples : \E c \in FileSamples :
          input = [warm |-> w, cold |-> c]
    /\ output = <<>>

\* load_cache reads FILENAME_CACHE and writes no file.
ApplyLoad ==
    /\ pc = "load_input"
    /\ output' = [result |-> load_cache(input.warm),
                  warm |-> input.warm,
                  cold |-> input.cold]
    /\ pc' = "load_done"
    /\ UNCHANGED <<runs, faults, originMaster, head, cacheFile, cache,
                   commits_and_dates, tagged_commits, jsonFile, csvFile,
                   indexFile, log, loaded, persisted, prev, input>>

NextLoad == ApplyLoad

SpecLoad == InitLoad /\ [][NextLoad]_vars

\* -- count_file_occurrences on any listing git grep -c may print: one line
\* per file with at least one match
CountTexts == {<<2>>, <<9>>, <<1, 0>>}

ListingSamples ==
    {s \in SeqsUpTo((1..MaxFiles) \X CountTexts, MaxFiles) :
        \A i \in DOMAIN s : \A j \in DOMAIN s : i # j => s[i][1] # s[j][1]}

InitFiles ==
    /\ Quiet
    /\ pc = "files_input"
    /\ input \in ListingSamples
    /\ output = <<>>

ApplyFiles ==
    /\ pc = "files_input"
    /\ output' = count_file_occurrences(input)
    /\ pc' = "files_done"
    /\ UNCHANGED <<runs, faults, originMaster, head, cacheFile, cache,
                   commits_and_dates, tagged_commits, jsonFile, csvFile,
                   indexFile, log, loaded, persisted, prev, input>>

NextFiles == ApplyFiles

SpecFiles == InitFiles /\ [][NextFiles]_vars

\* ================================================================ claims
\* What the cache file holds for a reader: the parsed mapping, or nothing
\* when the file is absent or is not JSON.
FileReadable == cacheFile.exists /\ cacheFile.complete

FileMap == IF FileReadable THEN Parse(cacheFile.text) ELSE EmptyMap

Checkouts(l) == {k \in DOMAIN l : l[k][1] = "checkout"}

Saves(l) == {k \in DOMAIN l : l[k][1] = "save"}

\* Cache misses recorded in l after its last save.
MissesSinceFlush(l) ==
    Cardinality({k \in Checkouts(l) : \A j \in Saves(l) : j < k})

RecordCounts(rec) ==
    <<rec.stream_file, rec.core_file, rec.ak_stream, rec.c_file>>

\* A step in which lookup_commit returned a record.
LookupReturned ==
    /\ pc = "scanning"
    /\ Len(tagged_commits) < Len(commits_and_dates)
    /\ Len(tagged_commits') = Len(tagged_commits) + 1

\* C1: a lookup_commit on a commit that is already a key of the cache makes
\* no checkout, no count and no save, leaves the mapping and the cache file
\* as they are, and returns the stored counts.
C1_Memoization ==
    [][(LookupReturned /\ NextEntry[1] \in DOMAIN cache) =>
          /\ log' = log
          /\ head' = head
          /\ cache' = cache
          /\ cacheFile' = cacheFile
          /\ Last(tagged_commits').commit = NextEntry[1]
          /\ RecordCounts(Last(tagged_commits')) = cache[NextEntry[1]]]_vars

\* A hit has been served: the newest record is for a commit that was loaded
\* from the cache file.
C1_Witness ==
    /\ pc = "scanning"
    /\ tagged_commits # <<>>
    /\ Last(tagged_commits).commit \in DOMAIN loaded
    /\ RecordCounts(Last(tagged_commits)) = loaded[Last(tagged_commits).commit]

\* C2: a run that follows a completed run and enumerates the same history
\* makes no checkout and ends with the dataset of the first run, which is
\* also what it exports.
C2_SecondRunIdentical ==
    (prev.completed /\ commits_and_dates = prev.commits) =>
        /\ Checkouts(log) = {}
        /\ ScanCompleted => tagged_commits = prev.dataset
        /\ pc = "exported" => jsonFile.rows = prev.dataset

C2_Witness ==
    /\ prev.completed
    /\ commits_and_dates = prev.commits
    /\ pc = "exported"
    /\ Len(tagged_commits) >= 2
    /\ Checkouts(log) = {}

\* A cache miss that stored its counts, and whether it saved the cache.
MissStored == LookupReturned /\ NextEntry[1] \notin DOMAIN cache

SavedInStep == Len(log') > Len(log) /\ Last(log') = <<"save">>

\* C3 as claimed: at a cache miss the cache is saved if and only if exactly
\* K misses have happened since the scan started or since the previous
\* in-scan save, whatever the size of the loaded cache.
C3_FlushEveryKMisses ==
    [][MissStored =>
          (SavedInStep <=> MissesSinceFlush(log) + 1 = SAVE_CACHE_INV_FREQ)]_vars

\* C3 amended: at a cache miss the cache is saved if and only if the number
\* of entries loaded at scan start plus the misses so far is a multiple of
\* K; the file then holds the whole mapping, and from the second in-scan
\* save on the saves are exactly K misses apart.
C3_FlushOnMultipleOfK ==
    [][MissStored =>
          /\ SavedInStep <=>
                (Cardinality(DOMAIN loaded) + Cardinality(Checkouts(log')))
                    % SAVE_CACHE_INV_FREQ = 0
          /\ SavedInStep =>
                /\ cacheFile'.exists /\ cacheFile'.complete
                /\ Parse(cacheFile'.text) = cache'
          /\ ~SavedInStep => cacheFile' = cacheFile
          /\ (SavedInStep /\ Saves(log) # {}) =>
                MissesSinceFlush(log) + 1 = SAVE_CACHE_INV_FREQ]_vars

\* A scan that loaded a cache whose size is no multiple of K and has saved
\* twice since.
C3_Witness ==
    /\ pc = "scanning"
    /\ Cardinality(DOMAIN loaded) % SAVE_CACHE_INV_FREQ # 0
    /\ Cardinality(Saves(log)) >= 2

C5_PersistedEntriesSurvive ==
    persisted # EmptyMap =>
        /\ load_cache(cacheFile).ok
        /\ \A k \in DOMAIN persisted :
              /\ k \in DOMAIN load_cache(cacheFile).cache
              /\ load_cache(cacheFile).cache[k] = persisted[k]

\* C6: once the scan has run to its end the cache has been saved, whatever
\* the number of misses since the last in-scan save: the file holds exactly
\* the mapping, every enumerated commit is in it, and the save is the last
\* thing that happened before the dataset was written out.
C6_FinalSave ==
    ScanCompleted =>
        /\ FileReadable
        /\ FileMap = cache
        /\ \A i \in DOMAIN commits_and_dates :
              commits_and_dates[i][1] \in DOMAIN FileMap
        /\ \E k \in DOMAIN log :
              /\ log[k] = <<"save">>
              /\ \A j \in DOMAIN log :
                    j > k => log[j][1] \notin {"checkout", "count", "save"}
        /\ pc \in {"saved", "json", "exported"} => Last(log) = <<"save">>

\* The dataset is out and the last miss of the scan had not saved.
C6_Witness ==
    /\ pc = "exported"
    /\ Len(log) >= 2
    /\ log[Len(log) - 1][1] = "count"

\* C7 as claimed: the dataset of a full scan is strictly ascending by
\* timestamp and holds one record per enumerated commit, in the
\* enumerator's order, with that commit's identifier and timestamp.
C7_StrictlyAscending ==
    ScanCompleted =>
        /\ Len(tagged_commits) = Len(commits_and_dates)
        /\ \A i \in DOMAIN tagged_commits :
              /\ tagged_commits[i].commit = commits_and_dates[i][1]
              /\ tagged_commits[i].unix_timestamp = commits_and_dates[i][2]
        /\ \A i \in DOMAIN tagged_commits : \A j \in DOMAIN tagged_commits :
              i < j => tagged_commits[i].unix_timestamp <
                       tagged_commits[j].unix_timestamp

\* C7 amended: the dataset of a full scan holds one record per enumerated
\* commit, in the enumerator's order (ancestors first), with that commit's
\* identifier and the timestamp git reported for it.
C7_OneRecordPerCommit ==
    ScanCompleted =>
        /\ Len(tagged_commits) = Len(commits_and_dates)
        /\ \A i \in DOMAIN tagged_commits :
              /\ tagged_commits[i].commit = commits_and_dates[i][1]
              /\ tagged_commits[i].unix_timestamp = commits_and_dates[i][2]
              /\ tagged_commits[i].unix_timestamp =
                    CommitDate(PosOf(tagged_commits[i].commit))
        /\ \A i \in DOMAIN tagged_commits : \A j \in DOMAIN tagged_commits :
              i < j => PosOf(tagged_commits[i].commit) <
                       PosOf(tagged_commits[j].commit)

\* A full scan whose dataset has two neighbours with the same timestamp.
C7_Witness ==
    /\ pc = "exported"
    /\ \E i \in DOMAIN tagged_commits :
          /\ i + 1 \in DOMAIN tagged_commits
          /\ tagged_commits[i].unix_timestamp =
                tagged_commits[i + 1].unix_timestamp

\* C8 as claimed: the enumerator returns the commits of origin/master, as
\* it stands after the fetch, whose change sets touch a tracked pattern,
\* wherever HEAD is.
C8_EnumeratesRemoteBranch ==
    pc = "enumerated" =>
        commits_and_dates = LogLines(originMaster, TRACKED_TOKENS)

\* C9 as claimed: when git log prints nothing, the enumerator does not
\* raise.
C9_EmptyHistoryTolerated ==
    [][(pc = "fetched" /\
        LogLines(LogRevision(head, originMaster), LOG_REGEX_ALTERNATIVES) = <<>>)
          => pc' # "failed"]_vars

\* C10: within a run the mapping never loses a key and never changes the
\* counts under a key, and neither does the cache file from one readable
\* state to the next, whichever commits are enumerated.
C10_AppendOnly ==
    [][/\ runs' = runs =>
             \A k \in DOMAIN cache :
                 k \in DOMAIN cache' /\ cache'[k] = cache[k]
       /\ (FileReadable /\ cacheFile'.exists /\ cacheFile'.complete) =>
             \A k \in DOMAIN FileMap :
                 /\ k \in DOMAIN Parse(cacheFile'.text)
                 /\ Parse(cacheFile'.text)[k] = FileMap[k]]_vars

\* A completed scan has saved the cache, and the file keeps an entry for a
\* commit that this run did not enumerate.
C10_Witness ==
    /\ ScanCompleted
    /\ Saves(log) # {}
    /\ \E k \in DOMAIN FileMap :
          \A i \in DOMAIN commits_and_dates : commits_and_dates[i][1] # k

\* The last checkout recorded in l before index k (0 when there is none).
LastCheckoutBefore(l, k) ==
    IF \E j \in 1..(k - 1) : l[j][1] = "checkout"
    THEN CHOOSE j \in 1..(k - 1) :
            /\ l[j][1] = "checkout"
            /\ \A m \in (j + 1)..(k - 1) : l[m][1] # "checkout"
    ELSE 0

\* C11: every count of a scan reads the tree of the commit whose checkout
\* is the last one before it, the working tree is at that commit when the
\* step ends, what is stored for a computed commit was counted on that
\* commit's tree, and a failed checkout ends the run with nothing counted
\* or stored for the commit.
C11_CheckoutBeforeCount ==
    /\ \A k \in DOMAIN log :
          log[k][1] = "count" =>
              /\ LastCheckoutBefore(log, k) # 0
              /\ CommitId(log[k][3]) = log[LastCheckoutBefore(log, k)][2]
    /\ (pc = "scanning" /\ Checkouts(log) # {}) =>
          \E k \in Checkouts(log) :
              /\ \A j \in Checkouts(log) : j <= k
              /\ CommitId(head) = log[k][2]
    /\ \A k \in DOMAIN log :
          log[k][1] = "checkout_failed" =>
              /\ k = Len(log)
              /\ pc = "failed"
              /\ log[k][2] \notin DOMAIN cache
              /\ log[k][2] \notin DOMAIN FileMap

\* Two commits have been checked out and counted in one scan.
C11_Witness ==
    /\ pc = "scanning"
    /\ Cardinality(Checkouts(log)) >= 2
    /\ Cardinality({k \in DOMAIN log : log[k][1] = "count"}) >= 8

\* C12 as claimed: a git grep run that died with an error status never
\* leaves its count in the cache; the run it happened in has failed.
C12_NoSwallowedError ==
    \A k \in DOMAIN log :
        (log[k][1] = "count" /\ log[k][4] = "error") =>
            /\ pc = "failed"
            /\ CommitId(log[k][3]) \notin DOMAIN cache

\* The lines of an output are all of the form "identifier timestamp" and the
\* output ends in a newline.
WellFormed(stdout) ==
    /\ stdout.terminated
    /\ \A i \in DOMAIN stdout.lines :
          stdout.lines[i] # EmptyLine /\ Len(stdout.lines[i]) = 2

\* C13 as claimed: the enumerator aborts exactly when the output of the
\* query is not newline-terminated or has a line that is not two fields;
\* otherwise it returns one pair per line, in the order of the lines.
C13_EnumeratorContract ==
    pc = "enum_done" =>
        /\ output.ok <=> WellFormed(input)
        /\ output.ok => output.entries = input.lines

\* C14: saving is a function of the mapping's contents: two dicts holding
\* the same items, whatever their insertion orders, are written as the same
\* text, with the keys ascending; it is the text the run's save writes.
C14_DeterministicSave ==
    pc = "save_done" =>
        /\ output.first = output.again
        /\ output.first = output.other
        /\ Items(output.first) = Items(input.first)
        /\ \A i \in DOMAIN output.first : \A j \in DOMAIN output.first :
              i < j => output.first[i][1] < output.first[j][1]
        /\ output.first = Dump(Parse(input.first))

\* Two dicts with the same three items in different insertion orders, the
\* first of them not in key order.
C14_Witness ==
    /\ pc = "save_done"
    /\ Len(input.first) = 3
    /\ input.first # input.other
    /\ input.first[1][1] > input.first[2][1]

\* C15 as claimed: with no warm cache but a cold snapshot, load returns the
\* snapshot's contents and has persisted a writable copy of it; with a warm
\* cache it returns that; the result is empty only when neither exists.
C15_WarmThenCold ==
    pc = "load_done" =>
        /\ (input.warm.exists /\ input.warm.complete) =>
              output.result.ok /\ output.result.cache = Parse(input.warm.text)
        /\ (~input.warm.exists /\ input.cold.exists /\ input.cold.complete) =>
              /\ output.result.ok
              /\ output.result.cache = Parse(input.cold.text)
              /\ output.warm.exists /\ output.warm.complete
              /\ Parse(output.warm.text) = Parse(input.cold.text)

\* C15 amended: load_cache returns the mapping in cache.json when that file
\* exists and is JSON, raises when it exists and is not, and returns an
\* empty mapping when it does not exist, whatever else is in the directory;
\* it writes no file.
C15_LoadsCacheFileOnly ==
    pc = "load_done" =>
        /\ (input.warm.exists /\ input.warm.complete) =>
              output.result.ok /\ output.result.cache = Parse(input.warm.text)
        /\ (input.warm.exists /\ ~input.warm.complete) => ~output.result.ok
        /\ ~input.warm.exists =>
              output.result.ok /\ output.result.cache = EmptyMap
        /\ output.warm = input.warm
        /\ output.cold = input.cold

\* Only a snapshot with entries exists, and load_cache returned nothing.
C15_Witness ==
    /\ pc = "load_done"
    /\ ~input.warm.exists
    /\ input.cold.exists /\ input.cold.complete /\ input.cold.text # <<>>
    /\ output.result.ok
    /\ output.result.cache = EmptyMap
    /\ ~output.warm.exists

PlaceIn(s, x) == CHOOSE i \in DOMAIN s : s[i] = x

\* C18: the per-file list is a permutation of the listed pairs, descending
\* by the counts as integers, and pairs of equal count are in the order of
\* the listing.
C18_StableDescending ==
    pc = "files_done" =>
        /\ Len(output) = Len(input)
        /\ Items(output) = Items(input)
        /\ \A i \in DOMAIN output : \A j \in DOMAIN output :
              i < j =>
                 /\ ParseInt(output[i][2]) >= ParseInt(output[j][2])
                 /\ output[i][2] = output[j][2] =>
                       PlaceIn(input, output[i]) < PlaceIn(input, output[j])

\* A listing of three files, two of them with the same count listed before
\* one with a greater count of more digits.
C18_Witness ==
    /\ pc = "files_done"
    /\ Len(input) = 3
    /\ input[1][2] = input[2][2]
    /\ input[3][2] = <<1, 0>>
    /\ input[1][2] = <<9>>
    /\ output = <<input[3], input[1], input[2]>>

\* The entries write_graphs left in the log of this run.
Printed(entry) == \E k \in DOMAIN log : log[k] = entry

PlottedAt(time_now) == Printed(<<"plotting", time_now>>)

\* C16 as claimed: a most recent commit older than a week but inside the
\* month and the year gets a warning and the charts; one older than a month
\* or a year makes the run fail, and gnuplot has not been invoked.
C16_NoChartingToolOnFailure ==
    \A d \in ClockOffsets :
        LET time_now == Last(commits_and_dates)[2] + d
        IN  (commits_and_dates # <<>> /\ PlottedAt(time_now)) =>
              /\ (d >= 604800 /\ d < 2678400 /\ d < 31622400) =>
                    /\ Printed(<<"warning", "week">>)
                    /\ Printed(<<"gnuplot", "plot">>)
                    /\ pc # "failed"
              /\ (d >= 2678400 \/ d >= 31622400) =>
                    /\ pc = "failed"
                    /\ \A k \in DOMAIN log : log[k][1] # "gnuplot"

\* C16 amended: as claimed, except that on the failure gnuplot has not been
\* run to plot; its version query has run before the windows are looked at.
\* Inside the week there is no warning.
C16_MissingDataPolicy ==
    \A d \in ClockOffsets :
        LET time_now == Last(commits_and_dates)[2] + d
        IN  (commits_and_dates # <<>> /\ PlottedAt(time_now)) =>
              /\ d < 604800 =>
                    /\ ~Printed(<<"warning", "week">>)
                    /\ Printed(<<"gnuplot", "plot">>)
                    /\ pc # "failed"
              /\ (d >= 604800 /\ d < 2678400 /\ d < 31622400) =>
                    /\ Printed(<<"warning", "week">>)
                    /\ Printed(<<"gnuplot", "plot">>)
                    /\ pc # "failed"
              /\ (d >= 2678400 \/ d >= 31622400) =>
                    /\ pc = "failed"
                    /\ ~Printed(<<"gnuplot", "plot">>)
                    /\ Printed(<<"gnuplot", "--version">>)
                    /\ Last(log)[1] = "error"

\* The most recent commit is exactly a week old: the warning, and the charts.
C16_Witness ==
    /\ pc = "charted"
    /\ PlottedAt(Last(commits_and_dates)[2] + 604800)
    /\ Printed(<<"warning", "week">>)
    /\ Last(log) = <<"gnuplot", "plot">>

\* C17: with no checkout at SERENITY_DIR a run gets no further than the
\* test of line 257: it ends with exit status 1, nothing is fetched,
\* enumerated, checked out, loaded or saved, and no file is written.
C17_SetupErrorNoAction ==
    head = 0 =>
        /\ pc \in {"idle", "start", "setup_error", "interrupted"}
        /\ originMaster = 0
        /\ commits_and_dates = <<>>
        /\ cache = EmptyMap /\ loaded = EmptyMap
        /\ ~cacheFile.exists
        /\ ~jsonFile.written /\ ~csvFile.written /\ ~indexFile.written
        /\ \A k \in DOMAIN log : log[k] = <<"exit", 1>>
        /\ pc = "setup_error" => log = <<<<"exit", 1>>>>

C17_Witness ==
    /\ head = 0
    /\ pc = "setup_error"
    /\ runs = 2
    /\ log = <<<<"exit", 1>>>>

\* C19 as claimed: whenever write_file_list counts, the working tree is the
\* tree of the last enumerated commit, whatever the cache held.
C19_FileListOnLastCommit ==
    \A k \in DOMAIN log :
        log[k][1] = "count_files" =>
            log[k][3] = PosOf(Last(commits_and_dates)[1])

\* Both export files hold the whole dataset, row for row.
ExportsComplete ==
    /\ Len(tagged_commits) = Len(commits_and_dates)
    /\ jsonFile.written /\ jsonFile.rows = tagged_commits
    /\ csvFile.written /\ Len(csvFile.rows) = Len(jsonFile.rows)
    /\ \A i \in DOMAIN jsonFile.rows :
          csvFile.rows[i] =
             <<jsonFile.rows[i].unix_timestamp, jsonFile.rows[i].stream_file,
               jsonFile.rows[i].core_file, jsonFile.rows[i].ak_stream,
               jsonFile.rows[i].c_file>>

CachePersisted == FileReadable /\ FileMap = cache

\* C20: an export file changes only in the steps that follow the last
\* lookup and the final save, so no failure of the scan touches it; and
\* once write_graphs or write_file_list has begun, also when write_graphs
\* fails for missing data, the cache is persisted and both export files
\* hold the whole dataset with the same rows in the same order.
C20_OutputOrdering ==
    [][/\ (jsonFile' # jsonFile \/ csvFile' # csvFile) =>
             /\ pc \in {"saved", "json"}
             /\ Len(tagged_commits) = Len(commits_and_dates)
             /\ CachePersisted
       /\ (\E k \in DOMAIN log' : log'[k][1] \in {"plotting", "count_files"}) =>
             /\ CachePersisted'
             /\ ExportsComplete'
       /\ (pc' = "failed" /\ log' # <<>> /\ Last(log')[1] = "error") =>
             /\ CachePersisted'
             /\ ExportsComplete'
             /\ ~indexFile'.written \/ indexFile' = indexFile]_vars

\* write_graphs failed for missing data after a scan with cache misses.
C20_Witness ==
    /\ pc = "failed"
    /\ log # <<>>
    /\ Last(log) = <<"error", "month">>
    /\ Checkouts(log) # {}
    /\ Len(csvFile.rows) >= 2

====
